---- MODULE Spec2Model ----
(***************************************************************************)
(* Model of the unified search module of El Catecismo Bautista             *)
(* (UnifiedSearch: normalizeText, buildAccentInsensitivePattern,           *)
(* textContains, escapeHtml, highlightText, search).                       *)
(*                                                                         *)
(* A JavaScript string is a sequence of UTF-16 code units (integers).  A   *)
(* JavaScript value that may be undefined is a record [def, s]: def is     *)
(* FALSE for undefined/null and s is the string otherwise.                 *)
(***************************************************************************)
EXTENDS Integers, Sequences, FiniteSets, TLC

VARIABLES op, text, query, index, limit, out, found, results, pattern

\* state of the search page (search.js)
VARIABLES loadState, fuse, inputValue, timers, timeout, status, shown,
          pageOp, lastArg, sinceInput, nInputs, nBursts, debCalls, earlyQuery

callVars == <<op, text, query, index, limit, out, found, results, pattern>>

pageVars == <<loadState, fuse, inputValue, timers, timeout, status, shown,
              pageOp, lastArg, sinceInput, nInputs, nBursts, debCalls,
              earlyQuery>>

vars == <<callVars, pageVars>>

----------------------------------------------------------------------------
(* Bounds of the explored inputs *)

MaxTextLen == 2
MaxQueryLen == 2
MaxHayLen == 3
MaxIndexLen == 3
MaxSearchQueryLen == 2
MaxLimit == 3
MaxTermsLen == 5
MaxInputs == 3
MaxInputLen == 2
TicksPerWait == 2

----------------------------------------------------------------------------
(* JavaScript values *)

Undefined == [def |-> FALSE, s |-> <<>>]

Str(s) == [def |-> TRUE, s |-> s]

\* !v for a string-or-undefined value: undefined, null and '' are falsy
Falsy(v) == ~v.def \/ v.s = <<>>

\* limit is a number or undefined
NoLimit == [def |-> FALSE, n |-> 0]

Num(n) == [def |-> TRUE, n |-> n]

RECURSIVE Concat(_)
Concat(ss) == IF ss = <<>> THEN <<>> ELSE Head(ss) \o Concat(Tail(ss))

\* String.prototype.indexOf(needle): first 0-based position, -1 when absent
IndexOf(hay, needle) ==
    LET n == Len(needle)
        P == {i \in 0..(Len(hay) - n) : SubSeq(hay, i + 1, i + n) = needle}
    IN IF P = {} THEN -1 ELSE CHOOSE i \in P : \A j \in P : i <= j

----------------------------------------------------------------------------
(* Character tables (Basic Latin, Latin-1 Supplement, combining marks) *)

\* String.prototype.toLowerCase on one code unit
LowerOf(c) ==
    IF c \in 65..90 \/ (c \in 192..222 /\ c # 215) THEN c + 32 ELSE c

\* String.prototype.toUpperCase on one code unit, when the result is one
\* code unit (the regular expression canonicalisation of the i flag);
\* 223 (sharp s) upper-cases to two units and is left alone
UpperOf(c) ==
    IF c \in 97..122 \/ (c \in 224..254 /\ c # 247) THEN c - 32
    ELSE IF c = 255 THEN 376
    ELSE IF c = 181 THEN 924
    ELSE c

\* Canonical decomposition of a lower-case Latin-1 letter
DecompLower(c) ==
    CASE c = 224 -> <<97, 768>>  [] c = 225 -> <<97, 769>>
      [] c = 226 -> <<97, 770>>  [] c = 227 -> <<97, 771>>
      [] c = 228 -> <<97, 776>>  [] c = 229 -> <<97, 778>>
      [] c = 231 -> <<99, 807>>
      [] c = 232 -> <<101, 768>> [] c = 233 -> <<101, 769>>
      [] c = 234 -> <<101, 770>> [] c = 235 -> <<101, 776>>
      [] c = 236 -> <<105, 768>> [] c = 237 -> <<105, 769>>
      [] c = 238 -> <<105, 770>> [] c = 239 -> <<105, 776>>
      [] c = 241 -> <<110, 771>>
      [] c = 242 -> <<111, 768>> [] c = 243 -> <<111, 769>>
      [] c = 244 -> <<111, 770>> [] c = 245 -> <<111, 771>>
      [] c = 246 -> <<111, 776>>
      [] c = 249 -> <<117, 768>> [] c = 250 -> <<117, 769>>
      [] c = 251 -> <<117, 770>> [] c = 252 -> <<117, 776>>
      [] c = 253 -> <<121, 769>> [] c = 255 -> <<121, 776>>
      [] OTHER -> <<c>>

\* Canonical decomposition (NFD) of one code unit
Decomp(c) ==
    IF c \in 192..221 /\ Len(DecompLower(c + 32)) = 2
    THEN <<DecompLower(c + 32)[1] - 32, DecompLower(c + 32)[2]>>
    ELSE DecompLower(c)

\* the class [\u0300-\u036f] : the combining diacritical marks block
IsCombiningMark(c) == c \in 768..879

RECURSIVE toLowerCase(_)
toLowerCase(s) ==
    IF s = <<>> THEN <<>> ELSE <<LowerOf(Head(s))>> \o toLowerCase(Tail(s))

\* String.prototype.normalize('NFD').  The canonical reordering of runs of
\* marks is not modelled: every mark of the tables above lies in
\* U+0300..U+036F and is removed by the replace that follows.
RECURSIVE normalizeNFD(_)
normalizeNFD(s) ==
    IF s = <<>> THEN <<>> ELSE Decomp(Head(s)) \o normalizeNFD(Tail(s))

\* .replace(/[\u0300-\u036f]/g, '')
stripMarks(s) == SelectSeq(s, LAMBDA c : ~IsCombiningMark(c))

\* normalizeText with the decomposition applied after the marks are removed
normalizeText_late(v) ==
    IF Falsy(v) THEN <<>> ELSE normalizeNFD(stripMarks(toLowerCase(v.s)))

\* normalizeText without the case folding
normalizeText_nocase(v) ==
    IF Falsy(v) THEN <<>> ELSE stripMarks(normalizeNFD(v.s))

normalizeText(v) ==
    IF Falsy(v) THEN <<>> ELSE stripMarks(normalizeNFD(toLowerCase(v.s)))

textContains(t, q) ==
    IF Falsy(t) \/ Falsy(q) THEN FALSE
    ELSE IndexOf(normalizeText(t), normalizeText(q)) # -1

----------------------------------------------------------------------------
(* Pattern builder and the regular expression it compiles to *)

ACCENT_MAP ==
    [c \in {97, 101, 105, 111, 117, 110, 99} |->
        CASE c = 97  -> <<91, 97, 225, 224, 228, 226, 93>>
          [] c = 101 -> <<91, 101, 233, 232, 235, 234, 93>>
          [] c = 105 -> <<91, 105, 237, 236, 239, 238, 93>>
          [] c = 111 -> <<91, 111, 243, 242, 246, 244, 93>>
          [] c = 117 -> <<91, 117, 250, 249, 252, 251, 93>>
          [] c = 110 -> <<91, 110, 241, 93>>
          [] c = 99  -> <<91, 99, 231, 93>>]

\* the characters of /[.*+?^${}()|[\]\\]/
RegexSpecial == {46, 42, 43, 63, 94, 36, 123, 125, 40, 41, 124, 91, 93, 92}

\* char.replace(/[.*+?^${}()|[\]\\]/g, '\\$&')
EscapeRegexChar(c) == IF c \in RegexSpecial THEN <<92, c>> ELSE <<c>>

RECURSIVE PatternOf(_)
PatternOf(nq) ==
    IF nq = <<>> THEN <<>>
    ELSE (IF Head(nq) \in DOMAIN ACCENT_MAP
          THEN ACCENT_MAP[Head(nq)]
          ELSE EscapeRegexChar(Head(nq))) \o PatternOf(Tail(nq))

\* The source of the RegExp that buildAccentInsensitivePattern returns
buildAccentInsensitivePattern(q) == PatternOf(normalizeText(q))

\* new RegExp(source, 'gi'): the sequence of one-character atoms of the
\* source.  An atom accepts any character (an unescaped dot) or the
\* characters of a set (a class, an escaped character, a literal).
AnyAtom == [any |-> TRUE, set |-> {}]

SetAtom(S) == [any |-> FALSE, set |-> S]

RECURSIVE RegExpAtoms(_)
RegExpAtoms(src) ==
    IF src = <<>> THEN <<>>
    ELSE IF Head(src) = 91 /\ IndexOf(src, <<93>>) # -1
    THEN LET close == IndexOf(src, <<93>>)
         IN <<SetAtom({src[k] : k \in 2..close})>>
                \o RegExpAtoms(SubSeq(src, close + 2, Len(src)))
    ELSE IF Head(src) = 92 /\ Len(src) >= 2
    THEN <<SetAtom({src[2]})>> \o RegExpAtoms(SubSeq(src, 3, Len(src)))
    ELSE IF Head(src) = 46
    THEN <<AnyAtom>> \o RegExpAtoms(Tail(src))
    ELSE <<SetAtom({Head(src)})>> \o RegExpAtoms(Tail(src))

\* Canonicalize of the i flag (no u flag): the upper case of the code unit,
\* unless that would map a non-ASCII unit to an ASCII one
Canonicalize(c) == IF c >= 128 /\ UpperOf(c) < 128 THEN c ELSE UpperOf(c)

LineTerminator == {10, 13, 8232, 8233}

AtomAccepts(atom, c) ==
    IF atom.any THEN c \notin LineTerminator
    ELSE \E m \in atom.set : Canonicalize(m) = Canonicalize(c)

\* the atoms match the characters of s that start at position pos (1-based)
MatchAt(s, atoms, pos) ==
    /\ pos + Len(atoms) - 1 <= Len(s)
    /\ \A k \in 1..Len(atoms) : AtomAccepts(atoms[k], s[pos + k - 1])

\* RegExp.prototype.test on a fresh pattern
RegExpTest(src, s) ==
    \E pos \in 1..(Len(s) + 1) : MatchAt(s, RegExpAtoms(src), pos)

----------------------------------------------------------------------------
(* HTML escaping and highlighting *)

\* the serialisation leaving the greater-than sign as it is
EscapeChar_nogt(c) ==
    CASE c = 38  -> <<38, 97, 109, 112, 59>>
      [] c = 60  -> <<38, 108, 116, 59>>
      [] c = 160 -> <<38, 110, 98, 115, 112, 59>>
      [] OTHER   -> <<c>>

\* the serialisation of an attribute value: the double quote encoded too
EscapeChar_quot(c) ==
    CASE c = 38  -> <<38, 97, 109, 112, 59>>
      [] c = 60  -> <<38, 108, 116, 59>>
      [] c = 62  -> <<38, 103, 116, 59>>
      [] c = 160 -> <<38, 110, 98, 115, 112, 59>>
      [] c = 34  -> <<38, 113, 117, 111, 116, 59>>
      [] OTHER   -> <<c>>

\* serialisation of one character of a text node (div.innerHTML)
EscapeChar(c) ==
    CASE c = 38  -> <<38, 97, 109, 112, 59>>
      [] c = 60  -> <<38, 108, 116, 59>>
      [] c = 62  -> <<38, 103, 116, 59>>
      [] c = 160 -> <<38, 110, 98, 115, 112, 59>>
      [] OTHER   -> <<c>>

RECURSIVE EscapeString(_)
EscapeString(s) ==
    IF s = <<>> THEN <<>> ELSE EscapeChar(Head(s)) \o EscapeString(Tail(s))

escapeHtml(v) == IF Falsy(v) THEN <<>> ELSE EscapeString(v.s)

\* escapeHtml of the search page (no early return): textContent takes
\* undefined and null as the empty string
pageEscapeHtml(v) == EscapeString(IF v.def THEN v.s ELSE <<>>)

\* '<mark class="search-highlight">'
MarkOpen ==
    <<60, 109, 97, 114, 107, 32, 99, 108, 97, 115, 115, 61, 34,
      115, 101, 97, 114, 99, 104, 45,
      104, 105, 103, 104, 108, 105, 103, 104, 116, 34, 62>>

\* '</mark>'
MarkClose == <<60, 47, 109, 97, 114, 107, 62>>

\* escaped.replace(pattern, MarkOpen + '$&' + MarkClose) with the g flag:
\* leftmost matches, left to right, not overlapping; after an empty match
\* the scan moves one character on
RECURSIVE ReplaceAll(_, _, _)
ReplaceAll(s, atoms, pos) ==
    LET here == IF pos <= Len(s) THEN <<s[pos]>> ELSE <<>>
        n == Len(atoms)
    IN IF pos > Len(s) + 1 THEN <<>>
       ELSE IF MatchAt(s, atoms, pos)
       THEN IF n = 0
            THEN MarkOpen \o MarkClose \o here \o ReplaceAll(s, atoms, pos + 1)
            ELSE MarkOpen \o SubSeq(s, pos, pos + n - 1) \o MarkClose
                    \o ReplaceAll(s, atoms, pos + n)
       ELSE here \o ReplaceAll(s, atoms, pos + 1)

\* the pattern that highlightText compiles, undefined when it returns
\* before building one
highlightPattern(t, q) ==
    IF Falsy(t) \/ Falsy(q) THEN Undefined
    ELSE Str(buildAccentInsensitivePattern(q))

\* highlightText that only returns early on an empty text
highlightText_noquery(t, q) ==
    IF Falsy(t) THEN escapeHtml(Str(<<>>))
    ELSE ReplaceAll(escapeHtml(t),
                    RegExpAtoms(buildAccentInsensitivePattern(q)), 1)

highlightText(t, q) ==
    IF Falsy(t) \/ Falsy(q)
    THEN escapeHtml(IF Falsy(t) THEN Str(<<>>) ELSE t)
    ELSE ReplaceAll(escapeHtml(t),
                    RegExpAtoms(buildAccentInsensitivePattern(q)), 1)

----------------------------------------------------------------------------
(* search *)

DefaultLimit == 50

MinQueryLength == 2

\* the white space that String.prototype.trim removes
IsWhiteSpace(c) ==
    c \in {9, 10, 11, 12, 13, 32, 160, 5760, 8232, 8233, 8239, 8287,
           12288, 65279} \cup (8192..8202)

RECURSIVE trimStart(_)
trimStart(s) ==
    IF s # <<>> /\ IsWhiteSpace(Head(s)) THEN trimStart(Tail(s)) ELSE s

RECURSIVE trimEnd(_)
trimEnd(s) ==
    IF s # <<>> /\ IsWhiteSpace(s[Len(s)])
    THEN trimEnd(SubSeq(s, 1, Len(s) - 1)) ELSE s

trim(s) == trimEnd(trimStart(s))

\* [item.question, item.answer, item.verse, item.reference]
fieldsToSearch(item) ==
    <<item.question, item.answer, item.verse, item.reference>>

\* the inner loop leaving at the first field that contains the query
RECURSIVE matchedFieldsFrom_first(_, _, _)
matchedFieldsFrom_first(fields, nq, j) ==
    IF j > Len(fields) THEN <<>>
    ELSE IF textContains(fields[j], Str(nq)) THEN <<fields[j]>>
    ELSE matchedFieldsFrom_first(fields, nq, j + 1)

\* the inner loop: the fields that contain the query, in the order checked
RECURSIVE matchedFieldsFrom(_, _, _)
matchedFieldsFrom(fields, nq, j) ==
    IF j > Len(fields) THEN <<>>
    ELSE (IF textContains(fields[j], Str(nq)) THEN <<fields[j]>> ELSE <<>>)
            \o matchedFieldsFrom(fields, nq, j + 1)

\* the outer loop from record i (1-based) with the results collected so far
RECURSIVE searchLoop(_, _, _, _, _)
searchLoop(idx, nq, lim, i, res) ==
    IF i > Len(idx) THEN res
    ELSE LET item == idx[i]
             matchedFields == matchedFieldsFrom(fieldsToSearch(item), nq, 1)
             res2 == IF matchedFields # <<>>
                     THEN Append(res, [item |-> item,
                                       matchedFields |-> matchedFields])
                     ELSE res
         IN IF Len(res2) >= lim THEN res2
            ELSE searchLoop(idx, nq, lim, i + 1, res2)

\* the outer loop breaking only once the results exceed the limit
RECURSIVE searchLoop_late(_, _, _, _, _)
searchLoop_late(idx, nq, lim, i, res) ==
    IF i > Len(idx) THEN res
    ELSE LET item == idx[i]
             matchedFields == matchedFieldsFrom(fieldsToSearch(item), nq, 1)
             res2 == IF matchedFields # <<>>
                     THEN Append(res, [item |-> item,
                                       matchedFields |-> matchedFields])
                     ELSE res
         IN IF Len(res2) > lim THEN res2
            ELSE searchLoop_late(idx, nq, lim, i + 1, res2)

\* the limit argument ignored: always the default
effectiveLimit_default(lim) == DefaultLimit

\* limit = limit || 50
effectiveLimit(lim) == IF ~lim.def \/ lim.n = 0 THEN DefaultLimit ELSE lim.n

\* search that compares the untrimmed length with the minimum
search_untrimmed(idx, q, lim) ==
    IF Falsy(q) \/ Len(q.s) < MinQueryLength THEN <<>>
    ELSE searchLoop(idx, trim(q.s), effectiveLimit(lim), 1, <<>>)

\* search whose scan breaks one result late
search_late(idx, q, lim) ==
    IF Falsy(q) \/ Len(trim(q.s)) < MinQueryLength THEN <<>>
    ELSE searchLoop_late(idx, trim(q.s), effectiveLimit(lim), 1, <<>>)

search(idx, q, lim) ==
    IF Falsy(q) \/ Len(trim(q.s)) < MinQueryLength THEN <<>>
    ELSE searchLoop(idx, trim(q.s), effectiveLimit(lim), 1, <<>>)

----------------------------------------------------------------------------
(* highlightMatches of the search page *)

\* '<span class="result-highlight">'
SpanOpen ==
    <<60, 115, 112, 97, 110, 32, 99, 108, 97, 115, 115, 61, 34,
      114, 101, 115, 117, 108, 116, 45,
      104, 105, 103, 104, 108, 105, 103, 104, 116, 34, 62>>

\* '</span>'
SpanClose == <<60, 47, 115, 112, 97, 110, 62>>

\* string.replace(/[.*+?^${}()|[\]\\]/g, '\\$&')
RECURSIVE escapeRegex(_)
escapeRegex(s) ==
    IF s = <<>> THEN <<>>
    ELSE EscapeRegexChar(Head(s)) \o escapeRegex(Tail(s))

\* String.prototype.split(/\s+/): cur is the piece being read, inRun tells
\* that the character before was white space
RECURSIVE splitWhiteSpace(_, _, _)
splitWhiteSpace(s, cur, inRun) ==
    IF s = <<>> THEN <<cur>>
    ELSE IF IsWhiteSpace(Head(s))
    THEN IF inRun THEN splitWhiteSpace(Tail(s), cur, TRUE)
         ELSE <<cur>> \o splitWhiteSpace(Tail(s), <<>>, TRUE)
    ELSE splitWhiteSpace(Tail(s), Append(cur, Head(s)), FALSE)

\* query.toLowerCase().split(/\s+/).filter(t => t.length >= 2)
queryTerms(q) ==
    SelectSeq(splitWhiteSpace(toLowerCase(q), <<>>, FALSE),
              LAMBDA t : Len(t) >= 2)

\* result.replace(regex, SpanOpen + '$1' + SpanClose) with the g flag; the
\* group of the regex is the whole match
RECURSIVE ReplaceWithSpan(_, _, _)
ReplaceWithSpan(s, atoms, pos) ==
    LET here == IF pos <= Len(s) THEN <<s[pos]>> ELSE <<>>
        n == Len(atoms)
    IN IF pos > Len(s) + 1 THEN <<>>
       ELSE IF MatchAt(s, atoms, pos)
       THEN IF n = 0
            THEN SpanOpen \o SpanClose \o here
                    \o ReplaceWithSpan(s, atoms, pos + 1)
            ELSE SpanOpen \o SubSeq(s, pos, pos + n - 1) \o SpanClose
                    \o ReplaceWithSpan(s, atoms, pos + n)
       ELSE here \o ReplaceWithSpan(s, atoms, pos + 1)

\* queryTerms.forEach: each term is replaced in the result of the one before
RECURSIVE highlightTerms(_, _)
highlightTerms(result, terms) ==
    IF terms = <<>> THEN result
    ELSE highlightTerms(
             ReplaceWithSpan(result, RegExpAtoms(escapeRegex(Head(terms))), 1),
             Tail(terms))

highlightMatches(t, q) ==
    IF Falsy(t) \/ Falsy(q)
    THEN pageEscapeHtml(IF Falsy(t) THEN Str(<<>>) ELSE t)
    ELSE highlightTerms(pageEscapeHtml(t), queryTerms(q.s))

----------------------------------------------------------------------------
(* The search page: index load, debounced input, performSearch *)

\* the wait of the debounced search, in milliseconds
DebounceWait == 200

\* the time that one step of the clock lets pass
TickMs == DebounceWait \div TicksPerWait

\* the text of the status element: a message and the query it quotes
StatusOf(msg, q) == [msg |-> msg, q |-> q]

\* performSearch(q): the status and the results shown after the call; hits
\* tells whether fuse.search returns any result
performSearch(fuseReady, q, hits, sh) ==
    IF ~fuseReady THEN [status |-> StatusOf("Cargando...", <<>>), shown |-> sh]
    ELSE IF Len(trim(q)) < 2
    THEN [status |-> StatusOf("Escribe al menos 2 caracteres.", <<>>),
          shown |-> Undefined]
    ELSE IF ~hits
    THEN [status |-> StatusOf("No se encontraron resultados", trim(q)),
          shown |-> Undefined]
    ELSE [status |-> StatusOf("resultado(s) encontrado(s).", <<>>),
          shown |-> Str(trim(q))]

\* the query that performSearch turns away because the index is not ready:
\* a query it would have searched
turnedAway(fuseReady, q, early) ==
    IF ~fuseReady /\ Len(trim(q)) >= 2 THEN Str(trim(q))
    ELSE IF fuseReady THEN Undefined
    ELSE early

\* the debounced function without the clearTimeout
debounced_noclear(pending, last, id) ==
    pending \cup {[id |-> id, left |-> DebounceWait]}

\* the function debounce returns: clearTimeout(timeout), then
\* timeout = setTimeout(..., wait); the pending timers after the call
debounced(pending, last, id) ==
    {t \in pending : t.id # last} \cup {[id |-> id, left |-> DebounceWait]}

----------------------------------------------------------------------------
(* Inputs *)

StringsUpTo(S, n) == UNION {[1..k -> S] : k \in 0..n}

\* characters of the texts given to normalizeText: A-acute, a, a-tilde,
\* N-tilde, n-tilde, combining acute accent, full stop
TextChars == {193, 97, 227, 209, 241, 769, 46}

\* characters of the texts and queries given to textContains and to the
\* pattern: A-acute, a, a-tilde, n-tilde, combining acute accent
PairChars == {193, 97, 227, 241, 769}

\* characters of the texts given to escapeHtml: ampersand, less-than,
\* greater-than, double quote, apostrophe, no-break space, a
EscapeChars == {38, 60, 62, 34, 39, 160, 97}

\* characters of the texts and queries given to highlightText: ampersand,
\* less-than, a, a-acute, combining acute accent
HtmlChars == {38, 60, 97, 225, 769}

\* characters of the texts given to highlightMatches: a, n, ampersand
MatchTextChars == {97, 110, 38}

\* characters of the queries given to highlightMatches: a, N, space
MatchQueryChars == {97, 78, 32}

\* characters of the queries given to search: a, a-acute, space
SearchChars == {97, 225, 32}

Texts(S, n) == {Undefined} \cup {Str(s) : s \in StringsUpTo(S, n)}

Record(q, a, v, r) ==
    [question |-> q, answer |-> a, verse |-> v, reference |-> r]

\* records of the index: fields may be absent or empty
Records ==
    { Record(Str(<<>>), Str(<<97, 32, 97, 97>>), Str(<<193, 65>>), Undefined),
      Record(Str(<<32>>), Undefined, Undefined, Undefined),
      Record(Str(<<97, 97>>), Str(<<98>>), Str(<<97, 225, 97>>),
             Str(<<225, 97>>)) }

Indexes == StringsUpTo(Records, MaxIndexLen)

Limits == {NoLimit} \cup {Num(n) : n \in (-1)..MaxLimit}

----------------------------------------------------------------------------
(* State: one call of the module (the module keeps no state between       *)
(* calls), its arguments and its result                                    *)

Init ==
    /\ op = "none"
    /\ text = Undefined
    /\ query = Undefined
    /\ index = <<>>
    /\ limit = NoLimit
    /\ out = <<>>
    /\ found = FALSE
    /\ results = <<>>
    /\ pattern = Undefined
    /\ loadState = "none"
    /\ fuse = FALSE
    /\ inputValue = <<>>
    /\ timers = {}
    /\ timeout = 0
    /\ status = StatusOf("", <<>>)
    /\ shown = Undefined
    /\ pageOp = "none"
    /\ lastArg = Undefined
    /\ sinceInput = DebounceWait
    /\ nInputs = 0
    /\ nBursts = 0
    /\ debCalls = 0
    /\ earlyQuery = Undefined

CallNormalizeText ==
    /\ op = "none"
    /\ UNCHANGED pageVars
    /\ \E t \in Texts(TextChars, MaxHayLen) :
           /\ op' = "normalizeText"
           /\ text' = t
           /\ out' = normalizeText(t)
           /\ query' = Undefined /\ index' = <<>> /\ limit' = NoLimit
           /\ found' = FALSE /\ results' = <<>>
           /\ pattern' = Undefined

CallTextContains ==
    /\ op = "none"
    /\ UNCHANGED pageVars
    /\ \E t \in Texts(PairChars, MaxTextLen), q \in Texts(PairChars, MaxQueryLen) :
           /\ op' = "textContains"
           /\ text' = t
           /\ query' = q
           /\ found' = textContains(t, q)
           /\ out' = <<>> /\ index' = <<>> /\ limit' = NoLimit /\ results' = <<>>
           /\ pattern' = Undefined

\* buildAccentInsensitivePattern(query) applied to a candidate text
CallBuildPattern ==
    /\ op = "none"
    /\ UNCHANGED pageVars
    /\ \E s \in StringsUpTo(PairChars, MaxTextLen),
          q \in Texts(PairChars, MaxQueryLen) :
           /\ op' = "buildAccentInsensitivePattern"
           /\ text' = Str(s)
           /\ query' = q
           /\ out' = buildAccentInsensitivePattern(q)
           /\ found' = RegExpTest(buildAccentInsensitivePattern(q), s)
           /\ index' = <<>> /\ limit' = NoLimit /\ results' = <<>>
           /\ pattern' = Str(buildAccentInsensitivePattern(q))

CallEscapeHtml ==
    /\ op = "none"
    /\ UNCHANGED pageVars
    /\ \E t \in Texts(EscapeChars, MaxHayLen) :
           /\ op' = "escapeHtml"
           /\ text' = t
           /\ out' = escapeHtml(t)
           /\ query' = Undefined /\ index' = <<>> /\ limit' = NoLimit
           /\ found' = FALSE /\ results' = <<>>
           /\ pattern' = Undefined

CallPageEscapeHtml ==
    /\ op = "none"
    /\ UNCHANGED pageVars
    /\ \E t \in Texts(EscapeChars, MaxHayLen) :
           /\ op' = "pageEscapeHtml"
           /\ text' = t
           /\ out' = pageEscapeHtml(t)
           /\ query' = Undefined /\ index' = <<>> /\ limit' = NoLimit
           /\ found' = FALSE /\ results' = <<>>
           /\ pattern' = Undefined

CallHighlightText ==
    /\ op = "none"
    /\ UNCHANGED pageVars
    /\ \E t \in Texts(HtmlChars, MaxTextLen), q \in Texts(HtmlChars, MaxQueryLen) :
           /\ op' = "highlightText"
           /\ text' = t
           /\ query' = q
           /\ out' = highlightText(t, q)
           /\ index' = <<>> /\ limit' = NoLimit
           /\ found' = FALSE /\ results' = <<>>
           /\ pattern' = highlightPattern(t, q)

CallHighlightMatches ==
    /\ op = "none"
    /\ UNCHANGED pageVars
    /\ \E t \in Texts(MatchTextChars, MaxTextLen),
          q \in Texts(MatchQueryChars, MaxTermsLen) :
           /\ op' = "highlightMatches"
           /\ text' = t
           /\ query' = q
           /\ out' = highlightMatches(t, q)
           /\ index' = <<>> /\ limit' = NoLimit
           /\ found' = FALSE /\ results' = <<>>
           /\ pattern' = Undefined

CallSearch ==
    /\ op = "none"
    /\ UNCHANGED pageVars
    /\ \E idx \in Indexes, q \in Texts(SearchChars, MaxSearchQueryLen),
          lim \in Limits :
           /\ op' = "search"
           /\ index' = idx
           /\ query' = q
           /\ limit' = lim
           /\ results' = search(idx, q, lim)
           /\ text' = Undefined /\ out' = <<>> /\ found' = FALSE
           /\ pattern' = Undefined

\* the values of the search field and of the q parameter: a, space
PageChars == {97, 32}

PageValues == StringsUpTo(PageChars, MaxInputLen)

\* initSearch on DOMContentLoaded: the load starts, and the q parameter of
\* the URL, when present, is searched at once
InitSearch ==
    /\ loadState = "none"
    /\ \E qp \in {Undefined} \cup {Str(v) : v \in PageValues} :
          /\ loadState' = "loading"
          /\ IF Falsy(qp)
             THEN UNCHANGED <<inputValue, status, shown, earlyQuery>>
             ELSE /\ inputValue' = qp.s
                  /\ status' = performSearch(fuse, qp.s, FALSE, shown).status
                  /\ shown' = performSearch(fuse, qp.s, FALSE, shown).shown
                  /\ earlyQuery' = turnedAway(fuse, qp.s, earlyQuery)
    /\ pageOp' = "initSearch"
    /\ UNCHANGED <<fuse, timers, timeout, lastArg, sinceInput, nInputs,
                   nBursts, debCalls>>
    /\ UNCHANGED callVars

\* loadSearchIndex after the fetch: initFuse builds the index when Fuse.js
\* is there
LoadSucceeds ==
    /\ loadState = "loading"
    /\ loadState' = "loaded"
    /\ \E lib \in BOOLEAN :
          /\ fuse' = lib
          /\ status' = IF lib THEN StatusOf("Listo para buscar.", <<>>)
                       ELSE StatusOf("Error: Fuse.js no esta disponible.", <<>>)
    /\ pageOp' = "loaded"
    /\ UNCHANGED <<inputValue, timers, timeout, shown, lastArg, sinceInput,
                   nInputs, nBursts, debCalls, earlyQuery>>
    /\ UNCHANGED callVars

\* loadSearchIndex when the fetch or the parsing fails
LoadFails ==
    /\ loadState = "loading"
    /\ loadState' = "failed"
    /\ status' = StatusOf("Error al cargar el indice de busqueda.", <<>>)
    /\ pageOp' = "loadFailed"
    /\ UNCHANGED <<fuse, inputValue, timers, timeout, shown, lastArg,
                   sinceInput, nInputs, nBursts, debCalls, earlyQuery>>
    /\ UNCHANGED callVars

\* an input event: the field has a new value and the debounced search is
\* called.  A timer that is due runs before a later event.
InputEvent ==
    /\ loadState # "none"
    /\ nInputs < MaxInputs
    /\ \A t \in timers : t.left > 0
    /\ \E v \in PageValues : inputValue' = v
    /\ timers' = debounced(timers, timeout, nInputs + 1)
    /\ timeout' = nInputs + 1
    /\ nInputs' = nInputs + 1
    /\ nBursts' = IF sinceInput >= DebounceWait THEN nBursts + 1 ELSE nBursts
    /\ sinceInput' = 0
    /\ earlyQuery' = Undefined
    /\ pageOp' = "input"
    /\ UNCHANGED <<loadState, fuse, status, shown, lastArg, debCalls>>
    /\ UNCHANGED callVars

\* time passes, not beyond the moment a timer is due
Tick ==
    /\ loadState # "none"
    /\ sinceInput < DebounceWait \/ timers # {}
    /\ \A t \in timers : t.left > 0
    /\ timers' = {[id |-> t.id,
                   left |-> IF t.left > TickMs THEN t.left - TickMs ELSE 0] :
                  t \in timers}
    /\ sinceInput' = IF sinceInput + TickMs >= DebounceWait THEN DebounceWait
                     ELSE sinceInput + TickMs
    /\ pageOp' = "tick"
    /\ UNCHANGED <<loadState, fuse, inputValue, timeout, status, shown,
                   lastArg, nInputs, nBursts, debCalls, earlyQuery>>
    /\ UNCHANGED callVars

\* a timer of the debounced search fires: performSearch(input.value)
TimerFires ==
    /\ \E t \in timers :
          /\ t.left = 0
          /\ timers' = timers \ {t}
    /\ \E hits \in BOOLEAN :
          /\ status' = performSearch(fuse, inputValue, hits, shown).status
          /\ shown' = performSearch(fuse, inputValue, hits, shown).shown
    /\ lastArg' = Str(inputValue)
    /\ debCalls' = debCalls + 1
    /\ earlyQuery' = turnedAway(fuse, inputValue, earlyQuery)
    /\ pageOp' = "fire"
    /\ UNCHANGED <<loadState, fuse, inputValue, timeout, sinceInput, nInputs,
                   nBursts>>
    /\ UNCHANGED callVars

\* the clear button: the field and the results are emptied; no input event
ClearClick ==
    /\ loadState # "none"
    /\ inputValue # <<>> \/ shown.def \/ status.msg # ""
    /\ inputValue' = <<>>
    /\ shown' = Undefined
    /\ status' = StatusOf("", <<>>)
    /\ earlyQuery' = Undefined
    /\ pageOp' = "clear"
    /\ UNCHANGED <<loadState, fuse, timers, timeout, lastArg, sinceInput,
                   nInputs, nBursts, debCalls>>
    /\ UNCHANGED callVars

NextPage ==
    \/ InitSearch \/ LoadSucceeds \/ LoadFails
    \/ InputEvent \/ Tick \/ TimerFires \/ ClearClick

NextText == CallNormalizeText \/ CallTextContains \/ CallBuildPattern

NextHighlight == CallEscapeHtml \/ CallPageEscapeHtml \/ CallHighlightText

NextSearch == CallSearch

NextMatches == CallHighlightMatches

Next == NextText \/ NextHighlight \/ NextSearch \/ NextMatches \/ NextPage

SpecText == Init /\ [][NextText]_vars

SpecHighlight == Init /\ [][NextHighlight]_vars

SpecSearch == Init /\ [][NextSearch]_vars

SpecMatches == Init /\ [][NextMatches]_vars

SpecPage == Init /\ [][NextPage]_vars

Spec == Init /\ [][Next]_vars

----------------------------------------------------------------------------
(* Vocabulary of the properties *)

Min(a, b) == IF a <= b THEN a ELSE b

Range(s) == {s[k] : k \in 1..Len(s)}

IsPrefix(p, s) == Len(p) <= Len(s) /\ SubSeq(s, 1, Len(p)) = p

Drop(s, n) == SubSeq(s, n + 1, Len(s))

\* the query is one that search accepts
ValidQuery(q) == q.def /\ Len(trim(q.s)) >= MinQueryLength

\* some searchable field of the record contains the query
Matches(item, nq) ==
    \E f \in {item.question, item.answer, item.verse, item.reference} :
        textContains(f, Str(nq))

\* the matching records of the whole index, in index order
MatchingItems(idx, nq) == SelectSeq(idx, LAMBDA it : Matches(it, nq))

\* the records of the results, in result order
ItemsOf(res) == [k \in 1..Len(res) |-> res[k].item]

\* the limit the caller supplied, 50 when omitted
SuppliedLimit(lim) == IF lim.def THEN lim.n ELSE DefaultLimit

\* number of records the scan visits: up to the first record at which the
\* matches so far reach the limit in force, the whole index otherwise
ScannedLen(idx, nq, lim) ==
    LET matchesUpTo(i) == Cardinality({k \in 1..i : Matches(idx[k], nq)})
        S == {i \in 1..Len(idx) : matchesUpTo(i) >= lim}
    IN IF S = {} THEN Len(idx) ELSE CHOOSE i \in S : \A j \in S : i <= j

\* the output of highlightText without its markers
RECURSIVE StripMarkers(_)
StripMarkers(o) ==
    IF o = <<>> THEN <<>>
    ELSE IF IsPrefix(MarkOpen, o) THEN StripMarkers(Drop(o, Len(MarkOpen)))
    ELSE IF IsPrefix(MarkClose, o) THEN StripMarkers(Drop(o, Len(MarkClose)))
    ELSE <<Head(o)>> \o StripMarkers(Tail(o))

\* the output of highlightMatches without its markers
RECURSIVE StripSpans(_)
StripSpans(o) ==
    IF o = <<>> THEN <<>>
    ELSE IF IsPrefix(SpanOpen, o) THEN StripSpans(Drop(o, Len(SpanOpen)))
    ELSE IF IsPrefix(SpanClose, o) THEN StripSpans(Drop(o, Len(SpanClose)))
    ELSE <<Head(o)>> \o StripSpans(Tail(o))

\* for each occurrence of the marker mk in o, in order, the number of
\* characters of the escaped text that precede it (n counts them)
RECURSIVE MarkerOffsets(_, _, _)
MarkerOffsets(mk, o, n) ==
    IF o = <<>> THEN <<>>
    ELSE IF IsPrefix(MarkOpen, o)
    THEN (IF mk = MarkOpen THEN <<n>> ELSE <<>>)
            \o MarkerOffsets(mk, Drop(o, Len(MarkOpen)), n)
    ELSE IF IsPrefix(MarkClose, o)
    THEN (IF mk = MarkClose THEN <<n>> ELSE <<>>)
            \o MarkerOffsets(mk, Drop(o, Len(MarkClose)), n)
    ELSE MarkerOffsets(mk, Tail(o), n + 1)

\* offsets of the escaped string at which a character of the text begins
\* or ends
CharBoundaries(s) ==
    {Len(Concat([j \in 1..k |-> EscapeChar(s[j])])) : k \in 0..Len(s)}

\* the entities of the serialisation of a text node, with the character
\* each stands for
Entities ==
    { <<<<38, 97, 109, 112, 59>>, 38>>,
      <<<<38, 108, 116, 59>>, 60>>,
      <<<<38, 103, 116, 59>>, 62>>,
      <<<<38, 110, 98, 115, 112, 59>>, 160>> }

\* every ampersand of o begins an entity
AmpersandsBeginEntities(o) ==
    \A k \in 1..Len(o) :
        o[k] = 38 => \E e \in Entities : IsPrefix(e[1], Drop(o, k - 1))

\* the text that an HTML parser reads back from the escaped string o
RECURSIVE Unescape(_)
Unescape(o) ==
    IF o = <<>> THEN <<>>
    ELSE IF \E e \in Entities : IsPrefix(e[1], o)
    THEN LET e == CHOOSE e \in Entities : IsPrefix(e[1], o)
         IN <<e[2]>> \o Unescape(Drop(o, Len(e[1])))
    ELSE <<Head(o)>> \o Unescape(Tail(o))

\* the precomposed forms, in both cases, of the letters a e i o u n c
LetterForms ==
    { {97, 65} \cup (224..229) \cup (192..197),
      {101, 69} \cup (232..235) \cup (200..203),
      {105, 73} \cup (236..239) \cup (204..207),
      {111, 79} \cup (242..246) \cup (210..214),
      {117, 85} \cup (249..252) \cup (217..220),
      {110, 78, 241, 209},
      {99, 67, 231, 199} }

\* the characters that are the same letter as c in another case or accent
VariantsOf(c) == {c} \cup UNION {F \in LetterForms : c \in F}

\* the strings that differ from s by one letter replaced by a variant
VariantsOfString(s) ==
    UNION {{[s EXCEPT ![i] = v] : v \in VariantsOf(s[i])} : i \in 1..Len(s)}

----------------------------------------------------------------------------
(* Properties *)

C2_FirstMatches ==
    (op = "search" /\ ValidQuery(query) /\ limit.def /\ limit.n >= 1) =>
        LET m == MatchingItems(index, trim(query.s))
        IN ItemsOf(results) = SubSeq(m, 1, Min(limit.n, Len(m)))

C2_Witness ==
    /\ op = "search" /\ ValidQuery(query)
    /\ limit = Num(1)
    /\ Len(MatchingItems(index, trim(query.s))) >= 2
    /\ Len(results) = 1
    /\ ~Matches(index[1], trim(query.s))

\* C3: search returns the empty sequence when the query is absent, empty
\* or shorter than 2 after trimming, whatever the index and the limit; a
\* query of trimmed length exactly 2 is searched: every record returned
\* contains it and, the limit not being negative, the records returned are
\* the first matching records up to the limit in force.
C3_ShortQuery ==
    op = "search" =>
        /\ (~query.def \/ Len(trim(query.s)) < 2) => results = <<>>
        /\ (query.def /\ Len(trim(query.s)) = 2) =>
              LET m == MatchingItems(index, trim(query.s))
              IN /\ \A k \in 1..Len(results) :
                        Matches(results[k].item, trim(query.s))
                 /\ (~limit.def \/ limit.n >= 0) =>
                        ItemsOf(results) =
                            SubSeq(m, 1, Min(effectiveLimit(limit), Len(m)))

C3_Witness ==
    /\ op = "search"
    /\ query = Str(<<32, 97>>)
    /\ \E k \in 1..Len(index) : Matches(index[k], <<97>>)
    /\ results = <<>>

\* C4: with a valid query, a scanned record is in the result iff one of
\* its fields question, answer, verse, reference contains the query; its
\* matchedFields are the values of the matching fields in that order; an
\* absent or empty field is never among them.
C4_MatchedFields ==
    (op = "search" /\ ValidQuery(query)) =>
        LET nq == trim(query.s)
            scanned == SubSeq(index, 1,
                              ScannedLen(index, nq, effectiveLimit(limit)))
        IN /\ ItemsOf(results) = MatchingItems(scanned, nq)
           /\ \A k \in 1..Len(results) :
                 LET r == results[k]
                 IN /\ r.matchedFields =
                          SelectSeq(<<r.item.question, r.item.answer,
                                      r.item.verse, r.item.reference>>,
                                    LAMBDA f : textContains(f, Str(nq)))
                    /\ r.matchedFields # <<>>
                    /\ \A j \in 1..Len(r.matchedFields) :
                          ~Falsy(r.matchedFields[j])

C4_Witness ==
    /\ op = "search" /\ ValidQuery(query)
    /\ \E k \in 1..Len(results) :
          /\ Len(results[k].matchedFields) = 2
          /\ Falsy(results[k].item.question)
          /\ ~results[k].item.reference.def

C6_CaseAccentInsensitive ==
    op = "textContains" =>
        /\ \A t2 \in VariantsOfString(text.s) :
              textContains(Str(t2), query) = found
        /\ \A q2 \in VariantsOfString(query.s) :
              textContains(text, Str(q2)) = found

C6_Witness ==
    /\ op = "textContains"
    /\ text = Str(<<193, 241>>)
    /\ query = Str(<<227, 241>>)
    /\ found

\* C7: the pattern compiled by buildAccentInsensitivePattern(query) finds
\* a match in a text iff textContains(text, query) holds.
C7_PatternAgreesWithContains ==
    (op = "buildAccentInsensitivePattern" /\ ~Falsy(text) /\ ~Falsy(query)) =>
        (found <=> textContains(text, query))

\* C8: no highlight marker is inserted inside an entity produced by the
\* escaping: every marker of the output of highlightText stands where a
\* character of the text begins or ends in the escaped string (stated for
\* the queries whose pattern is not empty).
C8_MarkersOnCharBoundaries ==
    (op = "highlightText" /\ normalizeText(query) # <<>>) =>
        \A mk \in {MarkOpen, MarkClose} :
            Range(MarkerOffsets(mk, out, 0)) \subseteq CharBoundaries(text.s)

\* C9: when the text or the query is empty or absent, highlightText
\* returns the escaped text with no marker, which is empty only when the
\* text is empty or absent.
C9_NoQueryNoMarker ==
    (op = "highlightText" /\ (Falsy(text) \/ Falsy(query))) =>
        /\ out = EscapeString(text.s)
        /\ 60 \notin Range(out)
        /\ (out = <<>>) <=> Falsy(text)

C9_Witness ==
    /\ op = "highlightText"
    /\ text = Str(<<38, 97>>)
    /\ query = Str(<<>>)
    /\ out = <<38, 97, 109, 112, 59, 97>>

\* C10: for a non-empty text and query, removing the markers from the
\* output of highlightText gives escapeHtml(text), the text between each
\* pair of markers is a non-empty match of the pattern, and every
\* occurrence of the pattern in the escaped text, taken left to right
\* without overlap, is wrapped.
C10_WrapsMatches ==
    (op = "highlightText" /\ ~Falsy(text) /\ ~Falsy(query)) =>
        LET esc == escapeHtml(text)
            atoms == RegExpAtoms(buildAccentInsensitivePattern(query))
            opens == MarkerOffsets(MarkOpen, out, 0)
            closes == MarkerOffsets(MarkClose, out, 0)
        IN /\ StripMarkers(out) = esc
           /\ Len(opens) = Len(closes)
           /\ \A k \in 1..Len(opens) :
                 /\ opens[k] < closes[k]
                 /\ closes[k] - opens[k] = Len(atoms)
                 /\ MatchAt(esc, atoms, opens[k] + 1)
                 /\ k > 1 => closes[k - 1] <= opens[k]
           /\ \A p \in 1..Len(esc) :
                 MatchAt(esc, atoms, p) =>
                     \E k \in 1..Len(opens) : opens[k] < p /\ p <= closes[k]

\* C11: the output of escapeHtml (of the module and of the search page)
\* contains no '<' and no '>', and the output of highlightText contains
\* none but those of the markers it inserts.
C11_NoAngleBrackets ==
    /\ op \in {"escapeHtml", "pageEscapeHtml"} =>
          Range(out) \cap {60, 62} = {}
    /\ op = "highlightText" => Range(StripMarkers(out)) \cap {60, 62} = {}

C11_Witness ==
    /\ op = "escapeHtml"
    /\ text = Str(<<60, 97, 62>>)
    /\ out = <<38, 108, 116, 59, 97, 38, 103, 116, 59>>

\* C12: escapeHtml entity-encodes each of the five characters < > & " ':
\* none of them survives unencoded in the output.
C12_FiveCharsEncoded ==
    op = "escapeHtml" =>
        /\ Range(out) \cap {60, 62, 34, 39} = {}
        /\ AmpersandsBeginEntities(out)

\* C12 (amended): escapeHtml entity-encodes each of the three characters
\* < > & (none of them survives unencoded and the text is read back from
\* the output); a double quote or a single quote is left as it is.
C12_ThreeCharsEncoded ==
    op = "escapeHtml" =>
        /\ Range(out) \cap {60, 62} = {}
        /\ AmpersandsBeginEntities(out)
        /\ Unescape(out) = text.s
        /\ SelectSeq(out, LAMBDA c : c \in {34, 39})
              = SelectSeq(text.s, LAMBDA c : c \in {34, 39})

C12_Witness ==
    /\ op = "escapeHtml"
    /\ text = Str(<<34, 38, 39>>)
    /\ out = <<34, 38, 97, 109, 112, 59, 39>>

\* C13: in every call of highlightText and search, a query that is below
\* the 2-character minimum after trimming and normalization is rejected
\* before buildAccentInsensitivePattern is invoked, so no compiled pattern
\* matches the empty string.
C13_BuilderNeverBelowMinimum ==
    (op \in {"highlightText", "search"} /\ pattern.def) =>
        /\ Len(normalizeText(Str(trim(query.s)))) >= MinQueryLength
        /\ ~MatchAt(<<>>, RegExpAtoms(pattern.s), 1)

C15_TermsMatchTextOnly ==
    op = "highlightMatches" =>
        StripSpans(out) = EscapeString(text.s)

\* the results, or the no-results message, of query q are on the page
Answered(q) ==
    \/ shown = Str(q)
    \/ status = StatusOf("No se encontraron resultados", q)

\* C16: a query of trimmed length >= 2 that performSearch received before
\* the index load completed is searched without further user input: once
\* the load has succeeded and no debounced search is pending, its results
\* or its no-results message are displayed.
C16_EarlyQueryAnswered ==
    (earlyQuery.def /\ loadState = "loaded" /\ fuse /\ timers = {}) =>
        Answered(earlyQuery.s)

====
